---- MODULE Spec2Model ----
(***************************************************************************)
(* Authentication service: AuthService (registerUser / loginUser) over     *)
(* AuthRepository over RedisClientService over a Redis key space.          *)
(* Every await of the source is a suspension point: requests interleave    *)
(* between the hash step, the store batch and the processing of its reply. *)
(***************************************************************************)
EXTENDS Integers, Sequences, FiniteSets, TLC

\* ---------------------------------------------------------------- bounds
MaxReqs == 3
MaxTicks == 1
TickMs == 600
MaxFaults == 1

\* the wall clock when the service starts
StartMs == 1600

\* calls made on a RedisClientService by a caller other than the process
MaxCalls == 4

\* signals delivered to the process, HTTP connections open at a time
MaxSignals == 4
MaxConns == 3

Usernames == {"alice", "bob"}

\* two usernames that differ in letter case only
CaseUsernames == {"alice", "Alice"}
Passwords == {"password1", "password2"}
Reqs == 1..MaxReqs

\* JavaScript null / undefined
Null == <<>>

VARIABLES
    store,      \* the Redis key space: key -> string value or hash
    req,        \* the in-flight and completed requests, one record per slot
    clock,      \* wall clock in milliseconds
    faults,     \* number of failures the environment has injected
    conn,       \* the RedisClientService: connection state and its calls
    proc,       \* the process: bootstrap, server, signals, shutdowns, exit
    legacy,     \* store and requests of the result-object service revision
    probe       \* the last userExists call and what the store held then

vars == <<store, req, clock, faults, conn, proc, legacy, probe>>

\* what the request handlers of the service never touch
outside == <<conn, proc, legacy, probe>>

\* ---------------------------------------------------------------- errors
HttpError(class, status, message) ==
    [class |-> class, isHttpError |-> TRUE, status |-> status, message |-> message]

ConflictError(message) == HttpError("ConflictError", 409, message)

UnauthorizedError == HttpError("UnauthorizedError", 401, "Invalid credentials")

DuplicateKeyError(key, message) ==
    [class |-> "DuplicateKeyError", isHttpError |-> FALSE, key |-> key,
     message |-> message]

\* an Error rejected by the redis client (connection lost, timeout)
StoreError == [class |-> "Error", isHttpError |-> FALSE, message |-> "store failure"]

\* an Error rejected by bcrypt
HashError == [class |-> "Error", isHttpError |-> FALSE, message |-> "bcrypt failure"]

Return(v) == [type |-> "return", value |-> v]
Throw(e) == [type |-> "throw", value |-> e]

\* ---------------------------------------------------------------- hasher
\* bcrypt's random salt: a value no other call draws, named after the request
genSalt(r) == "salt" \o ToString(r) \o "."

Salts == {genSalt(r) : r \in Reqs}

\* a strategy that stores what it was given
BcryptDigest_Plain(password, salt) == password

\* BcryptStrategy.hash -> bcrypt.hash(password, 12): the digest is a string
\* that embeds the cost and the salt it was computed with
BcryptDigest(password, salt) == "$2b$12$" \o salt \o password

\* BcryptStrategy.verify -> bcrypt.compare: re-hash with the digest's salt;
\* false for a string that is no digest
BcryptCompare(password, hash) ==
    \E salt \in Salts : BcryptDigest(password, salt) = hash

\* ---------------------------------------------------------------- dates
\* a timestamp format that keeps whole seconds only
toISOString_Seconds(date) == <<date \div 1000, 0>>

\* Date.prototype.toISOString at millisecond precision: <<seconds, millis>>
toISOString(date) == <<date \div 1000, date % 1000>>

\* new Date(isoString)
NewDate(iso) == iso[1] * 1000 + iso[2]

\* ---------------------------------------------------------------- adapter
toRedisUser(user) ==
    [id |-> user.id, username |-> user.username,
     passwordHash |-> user.passwordHash,
     createdAt |-> toISOString(user.createdAt),
     updatedAt |-> toISOString(user.updatedAt)]

fromRedisUser(redisUser) ==
    [id |-> redisUser.id, username |-> redisUser.username,
     passwordHash |-> redisUser.passwordHash,
     createdAt |-> NewDate(redisUser.createdAt),
     updatedAt |-> NewDate(redisUser.updatedAt)]

serializeForRedis(redisUser) ==
    [id |-> redisUser.id, username |-> redisUser.username,
     passwordHash |-> redisUser.passwordHash,
     createdAt |-> redisUser.createdAt, updatedAt |-> redisUser.updatedAt]

deserializeFromRedis(data) ==
    [id |-> data.id, username |-> data.username,
     passwordHash |-> data.passwordHash,
     createdAt |-> data.createdAt, updatedAt |-> data.updatedAt]

\* ---------------------------------------------------------------- keys
getUserKey(id) == <<"user:", id>>

\* one index key for every username
getUsernameIndexKey_Shared(username) == <<"username:", "">>

\* an index key derived from the lower-cased username
getUsernameIndexKey_Lower(username) ==
    <<"username:", IF username = "Alice" THEN "alice" ELSE username>>

getUsernameIndexKey(username) == <<"username:", username>>

\* ---------------------------------------------------------------- Redis
Put(s, k, v) == [x \in DOMAIN s \cup {k} |-> IF x = k THEN v ELSE s[x]]

\* a conditional set that reports an existing key and overwrites it all the same
SetNX_ReplyOnly(s, k, v) ==
    [store |-> Put(s, k, v), reply |-> IF k \in DOMAIN s THEN 0 ELSE 1]

\* SET in place of SETNX: the key is overwritten and the reply still says 1
SetNX_Overwrites(s, k, v) == [store |-> Put(s, k, v), reply |-> 1]

\* SETNX key value: 1 when the key was set, 0 when it already existed
SetNX(s, k, v) ==
    IF k \in DOMAIN s THEN [store |-> s, reply |-> 0]
    ELSE [store |-> Put(s, k, v), reply |-> 1]

\* HSET key field value ...: replies the number of fields that were added
HSet(s, k, fields) ==
    LET old == IF k \in DOMAIN s THEN s[k] ELSE Null
        new == [f \in DOMAIN old \cup DOMAIN fields |->
                    IF f \in DOMAIN fields THEN fields[f] ELSE old[f]]
    IN [store |-> Put(s, k, new),
        reply |-> Cardinality(DOMAIN fields \ DOMAIN old)]

\* GET key
Get(s, k) == IF k \in DOMAIN s THEN s[k] ELSE Null

\* HGETALL key: the empty object for a missing key
HGetAll(s, k) == IF k \in DOMAIN s THEN s[k] ELSE Null

\* the batch without its HSET: the index is claimed, the record never written
MultiExec_NoRecord(s, userKey, indexKey, id, serialized) ==
    LET a == SetNX(s, indexKey, id)
    IN [store |-> a.store, results |-> <<<<Null, a.reply>>, <<Null, 0>>>>]

\* MULTI / SETNX indexKey id / HSET userKey fields / EXEC, executed as one
\* atomic unit; EXEC replies one [err, result] pair per queued command
MultiExec(s, userKey, indexKey, id, serialized) ==
    LET a == SetNX(s, indexKey, id)
        b == HSet(a.store, userKey, serialized)
    IN [store |-> b.store,
        results |-> <<<<Null, a.reply>>, <<Null, b.reply>>>>]

\* success as soon as the batch executed, whatever SETNX replied
UniquenessSuccess_BatchRan(results) ==
    /\ results # Null
    /\ Len(results) > 0

\* saveUserWithUniqueIndex, after the await of exec()
UniquenessSuccess(results) ==
    /\ results # Null
    /\ Len(results) > 0
    /\ results[1] # Null
    /\ Len(results[1]) >= 2
    /\ results[1][2] = 1

\* a return value that carries the user whatever the batch replied
SaveResult_AlwaysUser(results, user) ==
    [success |-> UniquenessSuccess(results), user |-> user]

SaveResult(results, user) ==
    [success |-> UniquenessSuccess(results),
     user |-> IF UniquenessSuccess(results) THEN user ELSE Null]

\* getUserByKey without the empty-object check: a user of undefined fields
UserFromHash_NoEmptyCheck(redisUser) ==
    IF redisUser = Null \/ Cardinality(DOMAIN redisUser) = 0
    THEN [id |-> Null, username |-> Null, passwordHash |-> "",
          createdAt |-> 0, updatedAt |-> 0]
    ELSE fromRedisUser(deserializeFromRedis(redisUser))

\* getUserByKey, after the await of hGetAll()
UserFromHash(redisUser) ==
    IF redisUser = Null \/ Cardinality(DOMAIN redisUser) = 0 THEN Null
    ELSE fromRedisUser(deserializeFromRedis(redisUser))

getUserByKey(s, key) == UserFromHash(HGetAll(s, key))

getUserIdByIndex(s, indexKey) == Get(s, indexKey)

\* ---------------------------------------------------------------- repository
\* createUser, after the await of saveUserWithUniqueIndex; reply.thrown is
\* the rejection of exec(), if any
CreateUserOutcome(username, reply, user) ==
    IF reply.thrown # Null THEN Throw(reply.thrown)
    ELSE IF ~SaveResult(reply.results, user).success
         THEN Throw(DuplicateKeyError(getUsernameIndexKey(username),
                                      "Username already exists"))
         ELSE Return(SaveResult(reply.results, user).user)

findById(s, id) == getUserByKey(s, getUserKey(id))

\* ---------------------------------------------------------------- service
\* a catch that turns every repository error into a conflict
RegisterUserOutcome_CatchAll(repoOutcome) ==
    IF repoOutcome.type = "return"
    THEN Return([username |-> repoOutcome.value.username])
    ELSE Throw(ConflictError("Username already exists"))

\* registerUser: the try / catch around createUser
RegisterUserOutcome(repoOutcome) ==
    IF repoOutcome.type = "return"
    THEN Return([username |-> repoOutcome.value.username])
    ELSE IF repoOutcome.value.class = "DuplicateKeyError"
         THEN Throw(ConflictError("Username already exists"))
         ELSE Throw(repoOutcome.value)

\* a distinct error for the unknown user
LoginAbsentOutcome_NotFound == Throw(HttpError("NotFoundError", 404, "User not found"))

\* loginUser: findByUsername resolved to no user
LoginAbsentOutcome == Throw(UnauthorizedError)

\* a verify that is given the stored hash in place of the password
VerifyCall_HashAsPassword(credentials, user) ==
    <<user.passwordHash, user.passwordHash>>

\* loginUser: the arguments of its call of passwordStrategy.verify
VerifyCall(credentials, user) == <<credentials.password, user.passwordHash>>

\* loginUser: after the await of verify
LoginVerifiedOutcome(user, isPasswordValid) ==
    IF ~isPasswordValid THEN Throw(UnauthorizedError)
    ELSE Return([username |-> user.username])

\* ---------------------------------------------------------------- boundary
\* the strings of the model that match /^[a-zA-Z0-9_]+$/
WordStrings == Usernames \cup CaseUsernames \cup {"al"}

\* String.prototype.trim on the strings of the model
Trim(s) == IF s = " bob" THEN "bob" ELSE s

\* request bodies the schemas reject: a field is missing, too short or has
\* a character outside the username alphabet
MalformedBodies ==
    {[password |-> "password1"],
     [username |-> "alice"],
     [username |-> "al", password |-> "password1"],
     [username |-> "a b c", password |-> "password1"],
     [username |-> "alice", password |-> "short"],
     [username |-> "", password |-> ""]}

\* z.string(): the field is there and is a string
StringIssues(body, field) ==
    IF field \in DOMAIN body THEN {}
    ELSE {<<field, "Invalid input: expected string, received undefined">>}

\* one check of a zod string: an issue when the check fails
Issue(failed, field, message) == IF failed THEN {<<field, message>>} ELSE {}

\* registerSchema: the issues zod collects for a body
registerSchema(body) ==
    StringIssues(body, "username") \cup StringIssues(body, "password")
    \cup (IF "username" \notin DOMAIN body THEN {}
          ELSE Issue(Len(body.username) < 3, "username",
                     "Username must be at least 3 characters long")
               \cup Issue(Len(body.username) > 50, "username",
                          "Username must not exceed 50 characters")
               \cup Issue(body.username \notin WordStrings, "username",
                          "Username can only contain letters, numbers, and underscores"))
    \cup (IF "password" \notin DOMAIN body THEN {}
          ELSE Issue(Len(body.password) < 8, "password",
                     "Password must be at least 8 characters long")
               \cup Issue(Len(body.password) > 100, "password",
                          "Password must not exceed 100 characters"))

\* loginSchema: the issues zod collects for a body
loginSchema(body) ==
    StringIssues(body, "username") \cup StringIssues(body, "password")
    \cup (IF "username" \notin DOMAIN body THEN {}
          ELSE Issue(Len(body.username) < 1, "username",
                     "Username is required"))
    \cup (IF "password" \notin DOMAIN body THEN {}
          ELSE Issue(Len(body.password) < 1, "password",
                     "Password is required"))

SchemaIssues(kind, body) ==
    IF kind = "register" THEN registerSchema(body) ELSE loginSchema(body)

ZodError(issues) ==
    [class |-> "ZodError", isHttpError |-> FALSE, message |-> issues]

\* schema.safeParse(req.body): the parsed data has its username trimmed
safeParse(kind, body) ==
    IF SchemaIssues(kind, body) = {}
    THEN [success |-> TRUE,
          data |-> [username |-> Trim(body.username),
                    password |-> body.password]]
    ELSE [success |-> FALSE, error |-> ZodError(SchemaIssues(kind, body))]

\* the validate middleware: next() with the parsed body, or next(error)
validate(kind, body) ==
    IF safeParse(kind, body).success
    THEN [next |-> "handler", body |-> safeParse(kind, body).data]
    ELSE [next |-> "error", error |-> safeParse(kind, body).error]

\* the handler of an earlier revision, without a branch for ZodError
errorHandler_NoZodBranch(err) ==
    IF err.isHttpError
    THEN [status |-> err.status, body |-> [message |-> err.message]]
    ELSE [status |-> 500, body |-> [message |-> "Internal Server Error"]]

\* a fallback that answers with the message of the error it was given
errorHandler_EchoMessage(err) ==
    IF err.class = "ZodError"
    THEN [status |-> 400, body |-> [message |-> "Validation failed"]]
    ELSE IF err.isHttpError
         THEN [status |-> err.status, body |-> [message |-> err.message]]
         ELSE [status |-> 500, body |-> [message |-> err.message]]

\* the error middleware
errorHandler(err) ==
    IF err.class = "ZodError"
    THEN [status |-> 400, body |-> [message |-> "Validation failed"]]
    ELSE IF err.isHttpError
         THEN [status |-> err.status, body |-> [message |-> err.message]]
         ELSE [status |-> 500, body |-> [message |-> "Internal Server Error"]]

\* the controller after its await of the service
ControllerResponse(kind, user) ==
    [status |-> IF kind = "register" THEN 201 ELSE 200,
     body |-> [ok |-> TRUE, user |-> user]]

\* the route: what the controller sent, or what the error middleware sent
\* for the error the middleware chain was given
Respond(kind, outcome) ==
    IF outcome.type = "return" THEN ControllerResponse(kind, outcome.value)
    ELSE errorHandler(outcome.value)

\* ---------------------------------------------------------------- state
IdleReq ==
    [kind |-> "none", body |-> Null, serviceCalls |-> 0,
     username |-> "", password |-> "", pc |-> "idle",
     passwordHash |-> Null, user |-> Null,
     reply |-> [results |-> Null, thrown |-> Null],
     userId |-> Null, isPasswordValid |-> FALSE, verifyCalls |-> 0,
     verifyArgs |-> Null,
     repoOutcome |-> Null, outcome |-> Null,
     faulted |-> FALSE, indexExisted |-> FALSE, recordMissing |-> FALSE,
     afterOk |-> FALSE]

\* new RedisClientService(url): no connection yet, no call made
InitConn == [open |-> FALSE, calls |-> <<>>]

\* the process before its entry point ran
InitProc ==
    [pc |-> "init", handlers |-> FALSE, started |-> FALSE,
     listening |-> FALSE, connections |-> 0, signals |-> 0,
     shutdowns |-> <<>>, pending |-> "none", bootstrapError |-> Null,
     exited |-> FALSE, code |-> 0]

\* the locals of a request of the result-object revision
IdleLegacyReq ==
    [pc |-> "idle", user |-> Null, userId |-> Null, result |-> Null,
     status |-> 0]

InitLegacy == [store |-> Null, req |-> [r \in Reqs |-> IdleLegacyReq]]

Init ==
    /\ store = Null
    /\ req = [r \in Reqs |-> IdleReq]
    /\ clock = StartMs
    /\ faults = 0
    /\ conn = InitConn
    /\ proc = InitProc
    /\ legacy = InitLegacy
    /\ probe = Null

RegisteredOk(r, u, p) ==
    /\ req[r].kind = "register"
    /\ req[r].username = u
    /\ req[r].password = p
    /\ req[r].pc = "done"
    /\ req[r].outcome.type = "return"

\* a request arrives; slots are taken in order. Its body passes validate,
\* the controller invokes the service with the parsed body
Submit(r, kind, u, p) ==
    /\ req[r].pc = "idle"
    /\ IF r = 1 THEN TRUE ELSE req[r - 1].pc # "idle"
    /\ validate(kind, [username |-> u, password |-> p]).next = "handler"
    /\ LET data == validate(kind, [username |-> u, password |-> p]).body
       IN req' = [req EXCEPT ![r] =
                    [@ EXCEPT !.kind = kind,
                              !.body = [username |-> u, password |-> p],
                              !.serviceCalls = @ + 1,
                              !.username = data.username,
                              !.password = data.password,
                              !.pc = IF kind = "register" THEN "hashing"
                                     ELSE "getIndex",
                              !.afterOk =
                                  \E q \in Reqs :
                                      RegisteredOk(q, data.username,
                                                   data.password)]]
    /\ UNCHANGED <<store, clock, faults>>
    /\ UNCHANGED outside

\* a request arrives whose body validate rejects: the ZodError goes to the
\* error middleware and the controller is skipped
SubmitInvalid(r, kind, body) ==
    /\ req[r].pc = "idle"
    /\ IF r = 1 THEN TRUE ELSE req[r - 1].pc # "idle"
    /\ validate(kind, body).next = "error"
    /\ req' = [req EXCEPT ![r] =
                 [@ EXCEPT !.kind = kind, !.body = body, !.pc = "done",
                           !.outcome = Throw(validate(kind, body).error)]]
    /\ UNCHANGED <<store, clock, faults>>
    /\ UNCHANGED outside

\* an id generator that hands out the same id on every call
uuidv4_Fixed(r) == <<"uuid", 0>>

\* uuidv4(): a value no other call produces, named after the calling request
uuidv4(r) == <<"uuid", r>>

\* registerUser: hash resolves; createUser builds the user and
\* saveUserWithUniqueIndex queues the batch and awaits exec()
HashResolve(r) ==
    /\ req[r].pc = "hashing"
    /\ LET passwordHash == BcryptDigest(req[r].password, genSalt(r))
           user == [id |-> uuidv4(r), username |-> req[r].username,
                    passwordHash |-> passwordHash,
                    createdAt |-> clock, updatedAt |-> clock]
       IN req' = [req EXCEPT ![r] =
                    [@ EXCEPT !.passwordHash = passwordHash,
                              !.user = user, !.pc = "exec"]]
    /\ UNCHANGED <<store, clock, faults>>
    /\ UNCHANGED outside

\* a registerUser that claims the index entry before it hashes
HashReject_AfterClaim(r) ==
    /\ req[r].pc = "hashing"
    /\ faults < MaxFaults
    /\ faults' = faults + 1
    /\ store' = SetNX(store, getUsernameIndexKey(req[r].username),
                      uuidv4(r)).store
    /\ req' = [req EXCEPT ![r] =
                 [@ EXCEPT !.pc = "done", !.faulted = TRUE,
                           !.outcome = Throw(HashError)]]
    /\ UNCHANGED clock
    /\ UNCHANGED outside

\* registerUser: hash rejects, the error leaves registerUser
HashReject(r) ==
    /\ req[r].pc = "hashing"
    /\ faults < MaxFaults
    /\ faults' = faults + 1
    /\ req' = [req EXCEPT ![r] =
                 [@ EXCEPT !.pc = "done", !.faulted = TRUE,
                           !.outcome = Throw(HashError)]]
    /\ UNCHANGED <<store, clock>>
    /\ UNCHANGED outside

BatchOf(r) ==
    MultiExec(store, getUserKey(req[r].user.id),
              getUsernameIndexKey(req[r].username), req[r].user.id,
              serializeForRedis(toRedisUser(req[r].user)))

\* the store executes the batch and exec() resolves with its replies
ExecBatch(r) ==
    /\ req[r].pc = "exec"
    /\ store' = BatchOf(r).store
    /\ req' = [req EXCEPT ![r] =
                 [@ EXCEPT !.pc = "replied",
                           !.reply = [results |-> BatchOf(r).results,
                                      thrown |-> Null],
                           !.indexExisted =
                               getUsernameIndexKey(req[r].username)
                                   \in DOMAIN store]]
    /\ UNCHANGED <<clock, faults>>
    /\ UNCHANGED outside

\* the batch is discarded and exec() resolves with null
ExecNull(r) ==
    /\ req[r].pc = "exec"
    /\ faults < MaxFaults
    /\ faults' = faults + 1
    /\ req' = [req EXCEPT ![r] =
                 [@ EXCEPT !.pc = "replied", !.faulted = TRUE,
                           !.reply = [results |-> Null, thrown |-> Null],
                           !.indexExisted =
                               getUsernameIndexKey(req[r].username)
                                   \in DOMAIN store]]
    /\ UNCHANGED <<store, clock>>
    /\ UNCHANGED outside

\* exec() rejects: the connection failed before (applied = FALSE) or after
\* (applied = TRUE) the store executed the batch
ExecReject(r, applied) ==
    /\ req[r].pc = "exec"
    /\ faults < MaxFaults
    /\ faults' = faults + 1
    /\ store' = IF applied THEN BatchOf(r).store ELSE store
    /\ req' = [req EXCEPT ![r] =
                 [@ EXCEPT !.pc = "replied", !.faulted = TRUE,
                           !.reply = [results |-> Null, thrown |-> StoreError],
                           !.indexExisted =
                               getUsernameIndexKey(req[r].username)
                                   \in DOMAIN store]]
    /\ UNCHANGED clock
    /\ UNCHANGED outside

\* saveUserWithUniqueIndex returns, createUser returns or throws,
\* registerUser returns or throws
RegisterReturn(r) ==
    /\ req[r].pc = "replied"
    /\ LET repoOutcome ==
               CreateUserOutcome(req[r].username, req[r].reply, req[r].user)
       IN req' = [req EXCEPT ![r] =
                    [@ EXCEPT !.pc = "done", !.repoOutcome = repoOutcome,
                              !.outcome = RegisterUserOutcome(repoOutcome)]]
    /\ UNCHANGED <<store, clock, faults>>
    /\ UNCHANGED outside

\* findByUsername: getUserIdByIndex resolves; without an id findByUsername
\* returns null and loginUser throws, otherwise the record read is issued
GetIndex(r) ==
    /\ req[r].pc = "getIndex"
    /\ LET userId == getUserIdByIndex(store,
                                      getUsernameIndexKey(req[r].username))
       IN req' = [req EXCEPT ![r] =
                    IF userId = Null
                    THEN [@ EXCEPT !.pc = "done", !.userId = userId,
                                   !.outcome = LoginAbsentOutcome]
                    ELSE [@ EXCEPT !.pc = "getRecord", !.userId = userId]]
    /\ UNCHANGED <<store, clock, faults>>
    /\ UNCHANGED outside

\* the record a login's index lookup resolved to is not in the store
RecordMissing(r) == getUserKey(req[r].userId) \notin DOMAIN store

\* findByUsername: getUserByKey resolves; loginUser throws when it is null,
\* otherwise it invokes verify
GetRecord(r) ==
    /\ req[r].pc = "getRecord"
    /\ LET user == getUserByKey(store, getUserKey(req[r].userId))
       IN req' = [req EXCEPT ![r] =
                    IF user = Null
                    THEN [@ EXCEPT !.pc = "done", !.user = user,
                                   !.recordMissing = RecordMissing(r),
                                   !.outcome = LoginAbsentOutcome]
                    ELSE [@ EXCEPT !.pc = "verifying", !.user = user,
                                   !.recordMissing = RecordMissing(r),
                                   !.verifyCalls = @ + 1,
                                   !.verifyArgs =
                                       VerifyCall([username |-> req[r].username,
                                                   password |-> req[r].password],
                                                  user)]]
    /\ UNCHANGED <<store, clock, faults>>
    /\ UNCHANGED outside

\* get() or hGetAll() rejects: the error leaves findByUsername and loginUser
ReadReject(r) ==
    /\ req[r].pc \in {"getIndex", "getRecord"}
    /\ faults < MaxFaults
    /\ faults' = faults + 1
    /\ req' = [req EXCEPT ![r] =
                 [@ EXCEPT !.pc = "done", !.faulted = TRUE,
                           !.outcome = Throw(StoreError)]]
    /\ UNCHANGED <<store, clock>>
    /\ UNCHANGED outside

\* a loginUser that stamps the record of the user it authenticated
VerifyResolve_Touch(r) ==
    /\ req[r].pc = "verifying"
    /\ LET isPasswordValid ==
               BcryptCompare(req[r].verifyArgs[1], req[r].verifyArgs[2])
       IN /\ req' = [req EXCEPT ![r] =
                       [@ EXCEPT !.pc = "done",
                                 !.isPasswordValid = isPasswordValid,
                                 !.outcome =
                                     LoginVerifiedOutcome(req[r].user,
                                                          isPasswordValid)]]
          /\ store' = IF isPasswordValid
                      THEN HSet(store, getUserKey(req[r].userId),
                                [updatedAt |-> toISOString(clock)]).store
                      ELSE store
    /\ UNCHANGED <<clock, faults>>
    /\ UNCHANGED outside

\* loginUser: verify resolves
VerifyResolve(r) ==
    /\ req[r].pc = "verifying"
    /\ LET isPasswordValid ==
               BcryptCompare(req[r].verifyArgs[1], req[r].verifyArgs[2])
       IN req' = [req EXCEPT ![r] =
                    [@ EXCEPT !.pc = "done",
                              !.isPasswordValid = isPasswordValid,
                              !.outcome =
                                  LoginVerifiedOutcome(req[r].user,
                                                       isPasswordValid)]]
    /\ UNCHANGED <<store, clock, faults>>
    /\ UNCHANGED outside

\* loginUser: verify rejects, the error leaves loginUser
VerifyReject(r) ==
    /\ req[r].pc = "verifying"
    /\ faults < MaxFaults
    /\ faults' = faults + 1
    /\ req' = [req EXCEPT ![r] =
                 [@ EXCEPT !.pc = "done", !.faulted = TRUE,
                           !.outcome = Throw(HashError)]]
    /\ UNCHANGED <<store, clock>>
    /\ UNCHANGED outside

Tick ==
    /\ clock < StartMs + MaxTicks * TickMs
    /\ clock' = clock + TickMs
    /\ UNCHANGED <<store, req, faults>>
    /\ UNCHANGED outside

Next ==
    \/ \E r \in Reqs, u \in Usernames, p \in Passwords :
           Submit(r, "register", u, p)
    \/ \E r \in Reqs, u \in Usernames, p \in Passwords :
           Submit(r, "login", u, p)
    \/ \E r \in Reqs : HashResolve(r)
    \/ \E r \in Reqs : HashReject(r)
    \/ \E r \in Reqs : ExecBatch(r)
    \/ \E r \in Reqs : ExecNull(r)
    \/ \E r \in Reqs, applied \in BOOLEAN : ExecReject(r, applied)
    \/ \E r \in Reqs : RegisterReturn(r)
    \/ \E r \in Reqs : GetIndex(r)
    \/ \E r \in Reqs : GetRecord(r)
    \/ \E r \in Reqs : ReadReject(r)
    \/ \E r \in Reqs : VerifyResolve(r)
    \/ \E r \in Reqs : VerifyReject(r)
    \/ Tick

Spec == Init /\ [][Next]_vars

\* The store loses a user record outside the service (eviction, expiry,
\* manual deletion): the torn state findByUsername tolerates.
RecordLost(id) ==
    /\ getUserKey(id) \in DOMAIN store
    /\ faults < MaxFaults
    /\ faults' = faults + 1
    /\ store' = [k \in DOMAIN store \ {getUserKey(id)} |-> store[k]]
    /\ UNCHANGED <<req, clock>>
    /\ UNCHANGED outside

NextTorn ==
    \/ Next
    \/ \E r \in Reqs : RecordLost(uuidv4(r))

SpecTorn == Init /\ [][NextTorn]_vars

\* the service behind its router: bodies of any shape arrive
NextHttp ==
    \/ Next
    \/ \E r \in Reqs, kind \in {"register", "login"}, body \in MalformedBodies :
           SubmitInvalid(r, kind, body)
    \/ \E r \in Reqs, p \in Passwords : Submit(r, "login", " bob", p)

SpecHttp == Init /\ [][NextHttp]_vars

\* ---------------------------------------------------------------- revisions
\* The result-object revision of the service, with the repository and the
\* controller of its time, runs on a store of its own and is given the
\* requests the exception-throwing revision was given, one at a time; the
\* store fails for it in the requests in which it failed for the other.

\* every request submitted so far has been answered by both revisions
Quiet ==
    \A q \in Reqs :
        req[q].pc = "idle" \/ (req[q].pc = "done" /\ legacy.req[q].pc = "done")

\* a client that sends its next request once the last one was answered
SubmitNext(r, kind, u, p) ==
    /\ Quiet
    /\ Submit(r, kind, u, p)

\* a userExists that looks the user up as findByUsername does
userExists_ViaRecord(s, username) ==
    LET userId == getUserIdByIndex(s, getUsernameIndexKey(username))
    IN IF userId = Null
       THEN [value |-> FALSE,
             commands |-> <<<<"GET", getUsernameIndexKey(username)>>>>]
       ELSE [value |-> getUserByKey(s, getUserKey(userId)) # Null,
             commands |-> <<<<"GET", getUsernameIndexKey(username)>>,
                            <<"HGETALL", getUserKey(userId)>>>>]

\* AuthRepository.userExists: what it returns and the commands it sends to
\* the store
userExists(s, username) ==
    [value |-> getUserIdByIndex(s, getUsernameIndexKey(username)) # Null,
     commands |-> <<<<"GET", getUsernameIndexKey(username)>>>>]

\* the earlier createUser: MULTI / HSET userKey fields / SET indexKey id /
\* EXEC, with an unconditional SET
LegacyMultiExec(s, userKey, indexKey, id, storedUser) ==
    Put(HSet(s, userKey, storedUser).store, indexKey, id)

\* AuthServiceResult
Success(data) == [success |-> TRUE, data |-> data, error |-> ""]
Failure(error) == [success |-> FALSE, data |-> Null, error |-> error]

\* the earlier controller: the status it sends for a result of registerUser
\* and of loginUser
LegacyStatus(kind, result) ==
    IF kind = "register"
    THEN IF ~result.success
         THEN IF result.error = "Username already exists" THEN 409 ELSE 500
         ELSE 201
    ELSE IF ~result.success THEN 401 ELSE 200

\* request r ends in the result-object revision
LegacyDone(r, result) ==
    [legacy.req EXCEPT ![r] =
        [@ EXCEPT !.pc = "done", !.result = result,
                  !.status = LegacyStatus(req[r].kind, result)]]

\* the store is down for request r: its first store command rejects
StoreDown(r) == req[r].faulted

\* the request the other revision answered reaches the controller, which
\* parses the body and awaits the service: registerUser awaits userExists,
\* loginUser awaits the index read of findByUsername
LegacyArrive(r) ==
    /\ req[r].pc = "done"
    /\ legacy.req[r].pc = "idle"
    /\ legacy' = [legacy EXCEPT !.req[r].pc =
                      IF req[r].kind = "register" THEN "userExists"
                      ELSE "getIndex"]
    /\ UNCHANGED <<store, req, clock, faults, conn, proc, probe>>

\* registerUser after userExists settled: a rejection is caught, an existing
\* user is reported, otherwise the password is hashed
LegacyUserExists(r) ==
    /\ legacy.req[r].pc = "userExists"
    /\ legacy' =
          [legacy EXCEPT !.req =
              IF StoreDown(r)
              THEN LegacyDone(r, Failure("Registration failed"))
              ELSE IF userExists(legacy.store, req[r].username).value
              THEN LegacyDone(r, Failure("Username already exists"))
              ELSE [legacy.req EXCEPT ![r].pc = "hashing"]]
    /\ UNCHANGED <<store, req, clock, faults, conn, proc, probe>>

\* registerUser after bcrypt.hash resolved: createUser builds the user and
\* awaits the batch
LegacyHash(r) ==
    /\ legacy.req[r].pc = "hashing"
    /\ legacy' =
          [legacy EXCEPT !.req[r] =
              [@ EXCEPT !.pc = "exec",
                        !.user =
                            [id |-> uuidv4(r), username |-> req[r].username,
                             passwordHash |->
                                 BcryptDigest(req[r].password, genSalt(r)),
                             createdAt |-> clock, updatedAt |-> clock]]]
    /\ UNCHANGED <<store, req, clock, faults, conn, proc, probe>>

\* createUser after exec() resolved: its replies are not looked at, the user
\* is returned and registerUser reports success
LegacyCreateUser(r) ==
    /\ legacy.req[r].pc = "exec"
    /\ LET user == legacy.req[r].user
       IN legacy' =
              [store |-> LegacyMultiExec(legacy.store, getUserKey(user.id),
                                         getUsernameIndexKey(user.username),
                                         user.id,
                                         serializeForRedis(toRedisUser(user))),
               req |-> LegacyDone(r, Success([userId |-> user.id,
                                              username |-> user.username]))]
    /\ UNCHANGED <<store, req, clock, faults, conn, proc, probe>>

\* loginUser, findByUsername after the index read settled: a rejection is
\* caught by loginUser, no id is an unknown user, otherwise the record is read
LegacyGetIndex(r) ==
    /\ legacy.req[r].pc = "getIndex"
    /\ LET userId == getUserIdByIndex(legacy.store,
                                      getUsernameIndexKey(req[r].username))
       IN legacy' =
              [legacy EXCEPT !.req =
                  IF StoreDown(r)
                  THEN LegacyDone(r, Failure("Authentication failed"))
                  ELSE IF userId = Null
                  THEN LegacyDone(r, Failure("Invalid credentials"))
                  ELSE [legacy.req EXCEPT ![r].pc = "getRecord",
                                          ![r].userId = userId]]
    /\ UNCHANGED <<store, req, clock, faults, conn, proc, probe>>

\* loginUser after findByUsername returned: no user is an unknown user,
\* otherwise the password is compared
LegacyGetRecord(r) ==
    /\ legacy.req[r].pc = "getRecord"
    /\ LET user == getUserByKey(legacy.store,
                                getUserKey(legacy.req[r].userId))
       IN legacy' =
              [legacy EXCEPT !.req =
                  IF user = Null
                  THEN LegacyDone(r, Failure("Invalid credentials"))
                  ELSE [legacy.req EXCEPT ![r].pc = "verifying",
                                          ![r].user = user]]
    /\ UNCHANGED <<store, req, clock, faults, conn, proc, probe>>

\* loginUser after bcrypt.compare resolved
LegacyVerify(r) ==
    /\ legacy.req[r].pc = "verifying"
    /\ LET user == legacy.req[r].user
       IN legacy' =
              [legacy EXCEPT !.req =
                  IF ~BcryptCompare(req[r].password, user.passwordHash)
                  THEN LegacyDone(r, Failure("Invalid credentials"))
                  ELSE LegacyDone(r, Success([userId |-> user.id,
                                              username |-> user.username]))]
    /\ UNCHANGED <<store, req, clock, faults, conn, proc, probe>>

NextRevisions ==
    \/ \E r \in Reqs, u \in Usernames, p \in Passwords :
           SubmitNext(r, "register", u, p)
    \/ \E r \in Reqs, u \in Usernames, p \in Passwords :
           SubmitNext(r, "login", u, p)
    \/ \E r \in Reqs : HashResolve(r)
    \/ \E r \in Reqs : ExecBatch(r)
    \/ \E r \in Reqs : ExecReject(r, FALSE)
    \/ \E r \in Reqs : RegisterReturn(r)
    \/ \E r \in Reqs : GetIndex(r)
    \/ \E r \in Reqs : GetRecord(r)
    \/ \E r \in Reqs : ReadReject(r)
    \/ \E r \in Reqs : VerifyResolve(r)
    \/ \E r \in Reqs : LegacyArrive(r)
    \/ \E r \in Reqs : LegacyUserExists(r)
    \/ \E r \in Reqs : LegacyHash(r)
    \/ \E r \in Reqs : LegacyCreateUser(r)
    \/ \E r \in Reqs : LegacyGetIndex(r)
    \/ \E r \in Reqs : LegacyGetRecord(r)
    \/ \E r \in Reqs : LegacyVerify(r)

SpecRevisions == Init /\ [][NextRevisions]_vars

\* a caller of the repository asks whether a username is taken; what the
\* store held at that moment is kept with the answer
UserExistsCall(u) ==
    /\ probe' =
          [username |-> u,
           returned |-> userExists(store, u),
           indexPresent |-> getUsernameIndexKey(u) \in DOMAIN store,
           recordPresent |->
               /\ getUsernameIndexKey(u) \in DOMAIN store
               /\ getUserKey(store[getUsernameIndexKey(u)]) \in DOMAIN store]
    /\ UNCHANGED <<store, req, clock, faults, conn, proc, legacy>>

\* registrations, record loss and userExists calls
NextExists ==
    \/ \E r \in Reqs, u \in Usernames, p \in Passwords :
           Submit(r, "register", u, p)
    \/ \E r \in Reqs : HashResolve(r)
    \/ \E r \in Reqs : ExecBatch(r)
    \/ \E r \in Reqs : RegisterReturn(r)
    \/ \E r \in Reqs : RecordLost(uuidv4(r))
    \/ \E u \in Usernames : UserExistsCall(u)

SpecExists == Init /\ [][NextExists]_vars

\* clients that spell one name in two ways register and log in
NextCase ==
    \/ \E r \in Reqs, u \in CaseUsernames, p \in Passwords :
           Submit(r, "register", u, p)
    \/ \E r \in Reqs, u \in CaseUsernames, p \in Passwords :
           Submit(r, "login", u, p)
    \/ \E r \in Reqs : HashResolve(r)
    \/ \E r \in Reqs : ExecBatch(r)
    \/ \E r \in Reqs : RegisterReturn(r)
    \/ \E r \in Reqs : GetIndex(r)
    \/ \E r \in Reqs : GetRecord(r)
    \/ \E r \in Reqs : VerifyResolve(r)

SpecCase == Init /\ [][NextCase]_vars

\* ---------------------------------------------------------------- lifecycle
Error(message) == [class |-> "Error", isHttpError |-> FALSE, message |-> message]

\* what the redis client rejects with: an Error, or a value that is none
ClientFailures ==
    {[isError |-> TRUE, message |-> "Connection failed"],
     [isError |-> FALSE, value |-> "String error"]}

\* how a call on the redis client may settle: connect() resolves on a
\* closed client only, disconnect() and quit() on an open one; each may reject
ClientResults(op, open) ==
    {[ok |-> TRUE, error |-> Null] : x \in {op} \cap
         (IF open THEN {"disconnect", "quit"} ELSE {"connect"})}
    \cup {[ok |-> FALSE, error |-> e] : e \in ClientFailures}

AllResults == ClientResults("connect", FALSE)

\* error instanceof Error ? error.message : String(error)
errorMessage(error) == IF error.isError THEN error.message ELSE error.value

\* a connect that logs the failure and returns
connect_Swallow(result) ==
    IF result.ok
    THEN [outcome |-> Return(Null), exits |-> FALSE,
          log |-> <<"info", "Connected to Redis successfully">>]
    ELSE [outcome |-> Return(Null), exits |-> FALSE,
          log |-> <<"error", "Failed to connect to Redis:",
                    errorMessage(result.error)>>]

\* RedisClientService.connect: what it returns or throws, whether it ends
\* the process itself, and what it logs
connect(result) ==
    IF result.ok
    THEN [outcome |-> Return(Null), exits |-> FALSE,
          log |-> <<"info", "Connected to Redis successfully">>]
    ELSE [outcome |-> Throw(Error("Redis connection failed: "
                                  \o errorMessage(result.error))),
          exits |-> FALSE,
          log |-> <<"error", "Failed to connect to Redis:",
                    errorMessage(result.error)>>]

\* RedisClientService.disconnect
disconnect(result) ==
    IF result.ok
    THEN [outcome |-> Return(Null), exits |-> FALSE,
          log |-> <<"info", "Disconnected from Redis successfully">>]
    ELSE [outcome |-> Return(Null), exits |-> FALSE,
          log |-> <<"error", "Failed to disconnect from Redis:",
                    errorMessage(result.error)>>]

\* a quit without its catch: the rejection of the client leaves quit
quit_Rethrow(result) ==
    IF result.ok
    THEN [outcome |-> Return(Null), exits |-> FALSE,
          log |-> <<"info", "Redis client quit successfully">>]
    ELSE [outcome |-> Throw(result.error), exits |-> FALSE, log |-> <<>>]

\* RedisClientService.quit
quit(result) ==
    IF result.ok
    THEN [outcome |-> Return(Null), exits |-> FALSE,
          log |-> <<"info", "Redis client quit successfully">>]
    ELSE [outcome |-> Return(Null), exits |-> FALSE,
          log |-> <<"error", "Failed to quit Redis client:",
                    errorMessage(result.error)>>]

Adapter(op, result) ==
    IF op = "connect" THEN connect(result)
    ELSE IF op = "disconnect" THEN disconnect(result)
    ELSE quit(result)

\* the adapter after a call on it settled: the client is open after a
\* resolved connect and closed after a resolved disconnect or quit
Called(c, op, result) ==
    [open |-> IF result.ok THEN op = "connect" ELSE c.open,
     calls |-> Append(c.calls, [op |-> op, result |-> result,
                                returned |-> Adapter(op, result)])]

\* a caller other than the process (a test, a script) calls the adapter
Call(op, result) ==
    /\ Len(conn.calls) < MaxCalls
    /\ result \in ClientResults(op, conn.open)
    /\ conn' = Called(conn, op, result)
    /\ UNCHANGED <<store, req, clock, faults, proc, legacy, probe>>

NextAdapter ==
    \/ \E result \in AllResults : Call("connect", result)
    \/ \E result \in AllResults : Call("disconnect", result)
    \/ \E result \in AllResults : Call("quit", result)

SpecAdapter == Init /\ [][NextAdapter]_vars

\* the entry point runs: the process-level handlers are registered, bootstrap
\* constructs the client and awaits connect()
Start ==
    /\ proc.pc = "init"
    /\ ~proc.exited
    /\ proc' = [proc EXCEPT !.pc = "connecting"]
    /\ UNCHANGED <<store, req, clock, faults, conn, legacy, probe>>

\* connect() settles. When it returned, bootstrap wires the service, calls
\* app.listen and returns the server, and the entry point registers the
\* signal handlers; when it threw, bootstrap rethrows and the entry point's
\* catch exits with code 1
BootstrapConnected(result) ==
    /\ proc.pc = "connecting"
    /\ ~proc.exited
    /\ result \in ClientResults("connect", conn.open)
    /\ conn' = Called(conn, "connect", result)
    /\ proc' = IF connect(result).exits
               THEN [proc EXCEPT !.pc = "exited", !.exited = TRUE, !.code = 1]
               ELSE IF connect(result).outcome.type = "throw"
               THEN [proc EXCEPT !.pc = "exited",
                                 !.bootstrapError = connect(result).outcome.value,
                                 !.exited = TRUE, !.code = 1]
               ELSE [proc EXCEPT !.pc = "running", !.started = TRUE,
                                 !.listening = TRUE, !.handlers = TRUE]
    /\ UNCHANGED <<store, req, clock, faults, legacy, probe>>

\* the server emits 'error' (the port is taken): the listener exits with 1
ListenError ==
    /\ proc.pc = "running"
    /\ ~proc.exited
    /\ proc.listening
    /\ proc.connections = 0
    /\ proc.signals = 0
    /\ proc' = [proc EXCEPT !.pc = "exited", !.listening = FALSE,
                            !.exited = TRUE, !.code = 1]
    /\ UNCHANGED <<store, req, clock, faults, conn, legacy, probe>>

\* the server emits 'close': the callback of the close() that closed the
\* handle resolves its shutdown, which goes on to call quit(); the callback
\* of every close() made on the closed server rejects its shutdown with
\* ERR_SERVER_NOT_RUNNING, whose catch exits with code 1
EmitClose(p) ==
    LET resolved ==
            {i \in DOMAIN p.shutdowns : p.shutdowns[i].pc = "closing"}
        rejected ==
            {i \in DOMAIN p.shutdowns : p.shutdowns[i].pc = "notRunning"}
    IN [p EXCEPT !.shutdowns = [i \in DOMAIN p.shutdowns |->
                                   IF i \in resolved
                                   THEN [p.shutdowns[i] EXCEPT !.pc = "teardown"]
                                   ELSE IF i \in rejected
                                   THEN [p.shutdowns[i] EXCEPT !.pc = "failed"]
                                   ELSE p.shutdowns[i]],
                 !.pending = IF resolved # {} THEN "quit" ELSE @,
                 !.pc = IF rejected # {} THEN "exited" ELSE @,
                 !.exited = rejected # {},
                 !.code = IF rejected # {} THEN 1 ELSE @]

\* a shutdown that closes the store connection without closing the server
Shutdown_QuitFirst(p, signal) ==
    [p EXCEPT !.shutdowns = Append(@, [signal |-> signal, pc |-> "teardown"]),
              !.pending = "quit"]

\* shutdown(signal) up to its await: server.close(callback) closes the
\* listening handle, or finds it closed already; 'close' follows at once
\* when no connection is open
Shutdown(p, signal) ==
    LET q == [p EXCEPT !.listening = FALSE,
                       !.shutdowns =
                           Append(@, [signal |-> signal,
                                      pc |-> IF p.listening THEN "closing"
                                             ELSE "notRunning"])]
    IN IF q.connections = 0 THEN EmitClose(q) ELSE q

\* the exit status of a process a signal ended
SignalCode(sig) == IF sig = "SIGTERM" THEN 143 ELSE 130

\* SIGTERM or SIGINT is delivered: before the handlers are registered the
\* signal ends the process, afterwards the handler runs shutdown
Signal(sig) ==
    /\ ~proc.exited
    /\ proc.signals < MaxSignals
    /\ proc' = IF ~proc.handlers
               THEN [proc EXCEPT !.pc = "exited", !.signals = @ + 1,
                                 !.exited = TRUE, !.code = SignalCode(sig)]
               ELSE Shutdown([proc EXCEPT !.signals = @ + 1], sig)
    /\ UNCHANGED <<store, req, clock, faults, conn, legacy, probe>>

\* a client opens an HTTP connection to the listening server
HttpConnOpen ==
    /\ proc.pc = "running"
    /\ ~proc.exited
    /\ proc.listening
    /\ proc.connections < MaxConns
    /\ proc' = [proc EXCEPT !.connections = @ + 1]
    /\ UNCHANGED <<store, req, clock, faults, conn, legacy, probe>>

\* an HTTP connection ends; the last one of a closed server lets it emit
\* 'close'
HttpConnEnd ==
    /\ ~proc.exited
    /\ proc.connections > 0
    /\ proc' = IF ~proc.listening /\ proc.connections = 1
               THEN EmitClose([proc EXCEPT !.connections = 0])
               ELSE [proc EXCEPT !.connections = @ - 1]
    /\ UNCHANGED <<store, req, clock, faults, conn, legacy, probe>>

\* the adapter call a shutdown awaits settles. After quit() returned, and
\* after disconnect() returned, shutdown exits with code 0; a quit() that
\* threw makes it call disconnect(); a disconnect() that threw reaches the
\* outer catch, which exits with code 1
TeardownSettled(result) ==
    /\ ~proc.exited
    /\ proc.pending \in {"quit", "disconnect"}
    /\ result \in ClientResults(proc.pending, conn.open)
    /\ conn' = Called(conn, proc.pending, result)
    /\ proc' =
          IF Adapter(proc.pending, result).outcome.type = "return"
          THEN [proc EXCEPT !.pc = "exited", !.pending = "none",
                            !.exited = TRUE, !.code = 0]
          ELSE IF proc.pending = "quit"
               THEN [proc EXCEPT !.pending = "disconnect"]
               ELSE [proc EXCEPT !.pc = "exited", !.pending = "none",
                                 !.exited = TRUE, !.code = 1]
    /\ UNCHANGED <<store, req, clock, faults, legacy, probe>>

NextLife ==
    \/ Start
    \/ \E result \in AllResults : BootstrapConnected(result)
    \/ ListenError
    \/ \E sig \in {"SIGTERM", "SIGINT"} : Signal(sig)
    \/ HttpConnOpen
    \/ HttpConnEnd
    \/ \E result \in AllResults : TeardownSettled(result)

SpecLife == Init /\ [][NextLife]_vars

\* ================================================================ claims
Registers(u) == {r \in Reqs : req[r].kind = "register" /\ req[r].username = u}

Logins == {r \in Reqs : req[r].kind = "login"}

Done(r) == req[r].pc = "done"

Succeeded(r) == Done(r) /\ req[r].outcome.type = "return"

Conflicted(r) ==
    Done(r) /\ req[r].outcome = Throw(ConflictError("Username already exists"))

\* every registration for u has completed and none met an injected failure
AllSettled(u) ==
    /\ Registers(u) # {}
    /\ \A r \in Registers(u) : Done(r) /\ ~req[r].faulted

RecordsOf(u) ==
    {k \in DOMAIN store : k[1] = "user:" /\ store[k].username = u}

\* C1: among the registerUser calls for one username, in any interleaving of
\* their hash steps and store batches, at most one returns success; once all
\* of them have completed without a store or hasher failure exactly one has
\* returned success and every other one has raised ConflictError.
C1_ExactlyOneWinner ==
    \A u \in Usernames :
        /\ Cardinality({r \in Registers(u) : Succeeded(r)}) <= 1
        /\ AllSettled(u) =>
              /\ Cardinality({r \in Registers(u) : Succeeded(r)}) = 1
              /\ \A r \in Registers(u) : Succeeded(r) \/ Conflicted(r)

\* three registrations for one username completed, and the first one
\* submitted lost the race to a later one
C1_Witness ==
    \E u \in Usernames :
        /\ AllSettled(u)
        /\ Cardinality(Registers(u)) = MaxReqs
        /\ Conflicted(1)

\* C2 (as claimed): after the registrations for u have completed the store
\* holds exactly one User record with username u and one index entry for u.
C2_OneRecordOneIndex ==
    \A u \in Usernames :
        AllSettled(u) =>
            /\ Cardinality(RecordsOf(u)) = 1
            /\ getUsernameIndexKey(u) \in DOMAIN store

\* C3: whenever the index entry username:u exists and maps to id, the record
\* user:<id> exists and its username field is u.
C3_IndexHasRecord ==
    \A u \in Usernames :
        getUsernameIndexKey(u) \in DOMAIN store =>
            LET id == store[getUsernameIndexKey(u)]
            IN /\ getUserKey(id) \in DOMAIN store
               /\ store[getUserKey(id)].username = u
               /\ store[getUserKey(id)].id = id

\* the index for u exists while the winner has not yet returned and another
\* registration for u still waits for its batch
C3_Witness ==
    \E u \in Usernames :
        /\ getUsernameIndexKey(u) \in DOMAIN store
        /\ \E r \in Registers(u) : req[r].pc = "replied"
        /\ \E r \in Registers(u) : req[r].pc = "exec"

\* C4 (as claimed): whenever a record user:<id> with username u exists, the
\* index entry username:u exists and maps to that id.
C4_RecordHasIndex ==
    \A k \in DOMAIN store :
        k[1] = "user:" =>
            Get(store, getUsernameIndexKey(store[k].username)) = k[2]

\* a login that found no index entry
AbsentLogin(r) ==
    /\ r \in Logins
    /\ Done(r)
    /\ ~req[r].faulted
    /\ req[r].userId = Null

\* a login that found the user and whose password did not verify
WrongPasswordLogin(r) ==
    /\ r \in Logins
    /\ Done(r)
    /\ ~req[r].faulted
    /\ req[r].verifyCalls = 1
    /\ ~req[r].isPasswordValid

\* C5: a login for a username that was never registered and a login with a
\* wrong password fail with the same error: UnauthorizedError, status 401,
\* identical message.
C5_SameUnauthorized ==
    \A a, w \in Reqs :
        AbsentLogin(a) /\ WrongPasswordLogin(w) =>
            /\ req[a].outcome = req[w].outcome
            /\ req[a].outcome.type = "throw"
            /\ req[a].outcome.value.class = "UnauthorizedError"
            /\ req[a].outcome.value.status = 401

C5_Witness ==
    \E a, w \in Reqs : AbsentLogin(a) /\ WrongPasswordLogin(w)

\* C6: a login with (u, p) submitted after a registerUser(u, p) returned
\* success, and not hit by a store or hasher failure, returns {username: u}.
C6_LoginAfterRegister ==
    \A r \in Logins :
        Done(r) /\ req[r].afterOk /\ ~req[r].faulted =>
            req[r].outcome = Return([username |-> req[r].username])

\* such a login completed although a second registration for u was rejected
C6_Witness ==
    \E r \in Logins :
        /\ Done(r) /\ req[r].afterOk /\ ~req[r].faulted
        /\ \E q \in Registers(req[r].username) : Conflicted(q)

C8_ConflictOnlyIfIndexed ==
    \A r \in Reqs :
        req[r].kind = "register" /\ Conflicted(r) => req[r].indexExisted

\* C9: findByUsername reads the record only once the index resolved to an
\* id, and when that record is missing it returns null: loginUser then takes
\* its absent-user path and nothing else is thrown.
C9_MissingRecordIsAbsent ==
    \A r \in Logins :
        /\ req[r].pc = "getRecord" => req[r].userId # Null
        /\ req[r].userId = Null => ~req[r].recordMissing
        /\ req[r].recordMissing =>
              /\ req[r].user = Null
              /\ req[r].verifyCalls = 0
              /\ Done(r)
              /\ req[r].outcome = LoginAbsentOutcome

\* a login resolved the index to an id whose record was gone
C9_Witness ==
    \E r \in Logins :
        /\ req[r].recordMissing
        /\ req[r].userId # Null
        /\ getUsernameIndexKey(req[r].username) \in DOMAIN store

\* C10: the User a successful createUser returned is what findById reads
\* back for its id in every later state: id, username, passwordHash,
\* createdAt and updatedAt are equal.
C10_RoundTrip ==
    \A r \in Reqs :
        req[r].repoOutcome # Null /\ req[r].repoOutcome.type = "return" =>
            findById(store, req[r].repoOutcome.value.id)
                = req[r].repoOutcome.value

\* a created user whose timestamp has seconds and milliseconds, read back
\* after later requests completed
C10_Witness ==
    \E r \in Reqs :
        /\ req[r].repoOutcome # Null
        /\ req[r].repoOutcome.type = "return"
        /\ req[r].repoOutcome.value.createdAt % 1000 # 0
        /\ req[r].repoOutcome.value.createdAt \div 1000 # 0
        /\ \E q \in Reqs : q > r /\ Done(q)

\* the body request r arrived with fails the schema of its route
Malformed(r) ==
    /\ req[r].body # Null
    /\ ~safeParse(req[r].kind, req[r].body).success

\* C11: for every register or login request whose body fails schema
\* validation the service operation is never invoked, the store is not
\* touched on its arrival, and the response status is 400.
C11_InvalidNeverServed ==
    /\ [](\A r \in Reqs :
              Malformed(r) =>
                  /\ Done(r)
                  /\ req[r].serviceCalls = 0
                  /\ req[r].passwordHash = Null
                  /\ req[r].userId = Null
                  /\ req[r].verifyCalls = 0
                  /\ Respond(req[r].kind, req[r].outcome).status = 400)
    /\ [][\A r \in Reqs :
              /\ req[r].pc = "idle"
              /\ req'[r].body # Null
              /\ ~safeParse(req'[r].kind, req'[r].body).success
              => store' = store]_vars

\* a malformed registration and a malformed login were answered while a
\* well-formed registration had written to the store
C11_Witness ==
    /\ \E r \in Reqs : Malformed(r) /\ req[r].kind = "register"
    /\ \E r \in Reqs : Malformed(r) /\ req[r].kind = "login"
    /\ store # Null

\* request r ended with an error given to the error middleware
Failed(r) == Done(r) /\ req[r].outcome.type = "throw"

InternalServerError ==
    [status |-> 500, body |-> [message |-> "Internal Server Error"]]

\* ConflictError and UnauthorizedError are answered with their own status
\* and with exactly their message
DomainErrorsMapped(r) ==
    LET err == req[r].outcome.value
        res == Respond(req[r].kind, req[r].outcome)
    IN /\ err.class = "ConflictError" =>
              res = [status |-> 409, body |-> [message |-> err.message]]
       /\ err.class = "UnauthorizedError" =>
              res = [status |-> 401, body |-> [message |-> err.message]]

AdapterCalls(ops) == {i \in 1..Len(conn.calls) : conn.calls[i].op \in ops}

\* C13: the store adapter's disconnect() and quit() never raise: each
\* returns normally whether the underlying client call succeeds or fails,
\* also when it is called twice in a row, and neither ends the process.
C13_TeardownNeverRaises ==
    \A i \in AdapterCalls({"disconnect", "quit"}) :
        /\ conn.calls[i].returned.outcome = Return(Null)
        /\ ~conn.calls[i].returned.exits

\* disconnect() was called twice in a row, the second time on the client
\* the first call had closed, and a quit() met a failing client
C13_Witness ==
    /\ \E i \in AdapterCalls({"disconnect"}) :
           /\ conn.calls[i].result.ok
           /\ i + 1 \in AdapterCalls({"disconnect"})
           /\ ~conn.calls[i + 1].result.ok
    /\ \E i \in AdapterCalls({"quit"}) : ~conn.calls[i].result.ok

\* C14 (as claimed): during shutdown, whenever the clean close of the store
\* connection (quit) fails, a forced disconnect() of the same connection is
\* attempted afterwards: it is the call the shutdown awaits next, or it has
\* been made.
C14_FallbackAfterFailedQuit ==
    \A i \in AdapterCalls({"quit"}) :
        ~conn.calls[i].result.ok =>
            \/ proc.pending = "disconnect"
            \/ \E j \in AdapterCalls({"disconnect"}) : j > i

\* the process exited after at least one shutdown signal reached a handler
ExitedAfterShutdown == proc.exited /\ proc.shutdowns # <<>>

\* C15 (as claimed): the store connection is established exactly once at
\* startup, before the HTTP server starts listening, and is torn down exactly
\* once at shutdown, for any number and timing of SIGTERM/SIGINT signals:
\* when the process has exited after a shutdown, one teardown call has run
\* to completion, and never more than one is made.
C15_OnceUpOnceDown ==
    /\ Cardinality(AdapterCalls({"connect"})) <= 1
    /\ proc.started =>
          /\ AdapterCalls({"connect"}) = {1}
          /\ conn.calls[1].result.ok
    /\ Cardinality(AdapterCalls({"quit", "disconnect"}))
          + (IF proc.pending = "none" THEN 0 ELSE 1) <= 1
    /\ ExitedAfterShutdown =>
          Cardinality(AdapterCalls({"quit", "disconnect"})) = 1

\* C16: when connecting to the store fails, connect() raises an Error whose
\* message is 'Redis connection failed: ' followed by the cause and does not
\* end the process itself; bootstrap propagates that error, the HTTP server
\* is never started, and the process exits with code 1.
C16_ConnectFailure ==
    \A i \in AdapterCalls({"connect"}) :
        ~conn.calls[i].result.ok =>
            LET cause == conn.calls[i].result.error
                raised == conn.calls[i].returned.outcome
            IN /\ raised.type = "throw"
               /\ raised.value.class = "Error"
               /\ cause.isError =>
                     raised.value.message
                         = "Redis connection failed: Connection failed"
               /\ ~cause.isError =>
                     raised.value.message
                         = "Redis connection failed: String error"
               /\ ~conn.calls[i].returned.exits
               /\ proc.bootstrapError = raised.value
               /\ ~proc.started
               /\ ~proc.listening
               /\ proc.exited
               /\ proc.code = 1

\* the client rejected connect() with a value that is no Error and the
\* process has exited
C16_Witness ==
    /\ proc.exited
    /\ proc.bootstrapError # Null
    /\ \E i \in AdapterCalls({"connect"}) :
           /\ ~conn.calls[i].result.ok
           /\ ~conn.calls[i].result.error.isError

\* r is the only registration for its username and met no injected failure
SoleRegister(r) ==
    /\ req[r].kind = "register"
    /\ ~Malformed(r)
    /\ ~req[r].faulted
    /\ Registers(req[r].username) = {r}

\* C17: registrations for different usernames are independent: whatever
\* registrations for other usernames run before, after or interleaved with
\* it, the only registration for a username finds its index key free and
\* succeeds, as it does when it runs alone; so two concurrent registrations
\* for u1 # u2 both succeed.
C17_IndependentUsernames ==
    /\ \A r \in Reqs :
           SoleRegister(r) =>
               /\ req[r].pc = "replied" =>
                      /\ ~req[r].indexExisted
                      /\ UniquenessSuccess(req[r].reply.results)
               /\ Done(r) =>
                      req[r].outcome = Return([username |-> req[r].username])
    /\ \A a, b \in Reqs :
           /\ SoleRegister(a) /\ SoleRegister(b)
           /\ req[a].username # req[b].username
           /\ Done(a) /\ Done(b)
           => Succeeded(a) /\ Succeeded(b)

\* two registrations for different usernames overlapped: the one submitted
\* later has returned success while the earlier one, whose batch succeeded
\* too, has not yet returned
C17_Witness ==
    \E a, b \in Reqs :
        /\ a < b
        /\ SoleRegister(a) /\ SoleRegister(b)
        /\ req[a].username # req[b].username
        /\ Succeeded(b)
        /\ req[a].pc = "replied"
        /\ UniquenessSuccess(req[a].reply.results)

UserKeys == {k \in DOMAIN store : k[1] = "user:"}

\* the request whose createUser generated the id of record k
WriterOf(k) == CHOOSE r \in Reqs : uuidv4(r) = k[2]

\* C18: every User record ever written to the store has a passwordHash that
\* is the output of the password strategy's hash on the password of the
\* request that wrote it: it is never empty, never equal to the plaintext
\* password of the request, and the strategy verifies that password against
\* it.
C18_HashedPassword ==
    \A k \in UserKeys :
        LET hash == store[k].passwordHash
            password == req[WriterOf(k)].password
        IN /\ hash # ""
           /\ hash # password
           /\ hash = req[WriterOf(k)].passwordHash
           /\ hash = BcryptDigest(password, genSalt(WriterOf(k)))
           /\ BcryptCompare(password, hash)

\* two records written for the same password hold different digests
C18_Witness ==
    \E j, k \in UserKeys :
        /\ j # k
        /\ req[WriterOf(j)].password = req[WriterOf(k)].password
        /\ store[j].passwordHash # store[k].passwordHash

\* both revisions have answered request r
BothDone(r) == Done(r) /\ legacy.req[r].pc = "done"

\* C19 (as claimed): the result-object service revision and the
\* exception-throwing service revision are behaviourally equivalent: given
\* the same requests, with the store failing in the same requests, both
\* yield the same HTTP status per request and the same store contents once
\* every request has been answered.
C19_RevisionsEquivalent ==
    /\ \A r \in Reqs :
           BothDone(r) =>
               legacy.req[r].status
                   = Respond(req[r].kind, req[r].outcome).status
    /\ (\A r \in Reqs : req[r].pc = "idle" \/ BothDone(r)) =>
           legacy.store = store

\* C20: userExists(u) returns true exactly when the index entry username:u
\* is present and performs no record read: its only command is the GET of
\* the index key, so it returns true also where the index exists and the
\* record it points to is missing.
C20_IndexPresenceOnly ==
    probe # Null =>
        /\ probe.returned.value = probe.indexPresent
        /\ probe.returned.commands
              = <<<<"GET", getUsernameIndexKey(probe.username)>>>>
        /\ probe.indexPresent /\ ~probe.recordPresent =>
              probe.returned.value

\* userExists was called where the index entry existed and its record was
\* gone
C20_Witness ==
    /\ probe # Null
    /\ probe.indexPresent
    /\ ~probe.recordPresent
    /\ probe.returned.value

\* the request whose createUser generated the id the index entry of u holds
Winner(u) == CHOOSE r \in Reqs : uuidv4(r) = store[getUsernameIndexKey(u)]

\* C21: only the winner's claim is authoritative: once the index entry
\* username:u maps to an id no later step changes that mapping, and the
\* password that authenticates for u is the one of the request that claimed
\* the index: a registerUser(u, p2) rejected with ConflictError does not make
\* loginUser(u, p2) succeed when p2 is not the winner's password.
C21_WinnerAuthoritative ==
    /\ [][\A u \in Usernames :
              getUsernameIndexKey(u) \in DOMAIN store =>
                  /\ getUsernameIndexKey(u) \in DOMAIN store'
                  /\ store'[getUsernameIndexKey(u)]
                        = store[getUsernameIndexKey(u)]]_vars
    /\ [](\A r \in Logins :
              Done(r) /\ ~req[r].faulted =>
                  /\ Succeeded(r) => req[r].userId # Null
                  /\ req[r].userId # Null =>
                        /\ store[getUsernameIndexKey(req[r].username)]
                              = req[r].userId
                        /\ Succeeded(r) <=>
                              req[r].password
                                  = req[Winner(req[r].username)].password)

\* a registration for u with another password than the winner's was
\* rejected with ConflictError after its batch left a record of its own, and
\* a login submitted after it with that password was refused against the
\* winner's record
C21_Witness ==
    \E w, l, g \in Reqs :
        /\ l < g
        /\ req[w].kind = "register" /\ Succeeded(w)
        /\ req[l].kind = "register" /\ Conflicted(l)
        /\ req[l].username = req[w].username
        /\ req[l].password # req[w].password
        /\ getUserKey(uuidv4(l)) \in DOMAIN store
        /\ g \in Logins /\ Done(g) /\ ~req[g].faulted
        /\ req[g].username = req[l].username
        /\ req[g].password = req[l].password
        /\ req[g].userId = uuidv4(w)
        /\ req[g].outcome = Throw(UnauthorizedError)

\* C22: once a record user:<id> exists none of its fields ever changes and it
\* is never removed, under any sequence of register and login steps; the
\* batch of each createUser writes its record under an id no record in the
\* store uses.
C22_RecordsImmutable ==
    [][/\ \A k \in UserKeys :
              /\ k \in DOMAIN store'
              /\ store'[k] = store[k]
       /\ \A r \in Reqs :
              req[r].pc = "exec" /\ req'[r].pc = "replied" /\ store' # store =>
                  /\ getUserKey(req[r].user.id) \notin DOMAIN store
                  /\ getUserKey(req[r].user.id) \in DOMAIN store'
                  /\ store'[getUserKey(req[r].user.id)].id = req[r].user.id]_vars

\* two records for one username, written at different times, are in the
\* store and a login has read one of them
C22_Witness ==
    \E j, k \in UserKeys :
        /\ j # k
        /\ store[j].username = store[k].username
        /\ store[j].createdAt # store[k].createdAt
        /\ \E g \in Logins : Succeeded(g) /\ getUserKey(req[g].userId) = j

\* C23: loginUser looks the user up before verifying: while the lookup runs
\* and whenever findByUsername returned no user (no index entry, or no
\* record), the password strategy's verify is never invoked for the request;
\* when a user was found verify is invoked exactly once, with the submitted
\* password and the hash of the stored record.
C23_LookupBeforeVerify ==
    \A r \in Logins :
        /\ req[r].pc \in {"getIndex", "getRecord"} => req[r].user = Null
        /\ req[r].user = Null =>
              /\ req[r].verifyCalls = 0
              /\ req[r].verifyArgs = Null
              /\ req[r].pc # "verifying"
        /\ req[r].user # Null =>
              /\ req[r].pc \in {"verifying", "done"}
              /\ req[r].userId # Null
              /\ req[r].verifyCalls = 1
              /\ req[r].verifyArgs
                    = <<req[r].password, req[r].user.passwordHash>>
              /\ getUserKey(req[r].userId) \in DOMAIN store =>
                    req[r].verifyArgs[2]
                        = store[getUserKey(req[r].userId)].passwordHash

\* a login for an unknown username and a login whose record was gone were
\* refused without a verify, and a login that found its user was verified
C23_Witness ==
    \E a, v \in Logins :
        /\ Done(a) /\ req[a].user = Null /\ req[a].recordMissing
        /\ req[a].outcome = LoginAbsentOutcome
        /\ Done(v) /\ req[v].user # Null
        /\ req[v].password # req[WriterOf(getUserKey(req[v].userId))].password

\* exec() resolved for the batch of registration r: saveUserWithUniqueIndex
\* goes on to compute its return value
ExecResolved(r) ==
    /\ req[r].kind = "register"
    /\ req[r].pc \in {"replied", "done"}
    /\ req[r].user # Null
    /\ req[r].reply.thrown = Null

\* C24: saveUserWithUniqueIndex returns success = true exactly when the
\* first reply of the executed batch reports that the conditional set
\* created the index key, which it does exactly when the key was free when
\* the batch ran; it returns success = false when the key already existed
\* and when the batch returned no results; and it returns a user, the one
\* it was given, exactly when success is true.
C24_SaveResult ==
    \A r \in Reqs :
        ExecResolved(r) =>
            LET results == req[r].reply.results
                saved == SaveResult(results, req[r].user)
            IN /\ saved.success <=> (results # Null /\ results[1][2] = 1)
               /\ results # Null => (saved.success <=> ~req[r].indexExisted)
               /\ results = Null => ~saved.success
               /\ saved.success <=> saved.user # Null
               /\ saved.success => saved.user = req[r].user

\* one batch created the index key, one found it taken, and one returned no
\* results
C24_Witness ==
    \E a, b, c \in Reqs :
        /\ ExecResolved(a) /\ ExecResolved(b) /\ ExecResolved(c)
        /\ SaveResult(req[a].reply.results, req[a].user).success
        /\ req[b].reply.results # Null /\ req[b].indexExisted
        /\ req[c].reply.results = Null

\* the hash of registration r rejected
HashFailed(r) ==
    /\ req[r].kind = "register"
    /\ Done(r)
    /\ req[r].outcome = Throw(HashError)

\* no index entry and no record in the store comes from request r
NothingStored(r) ==
    /\ getUserKey(uuidv4(r)) \notin DOMAIN store
    /\ \A u \in Usernames : Get(store, getUsernameIndexKey(u)) # uuidv4(r)

\* C25: registerUser hashes the password before it touches the store: while
\* the hash is awaited nothing of the request is in the store, and the
\* batch is only issued with the digest of the password; if hashing fails
\* the error propagates out of registerUser, the failing step leaves the
\* store unchanged, and no index entry and no record is ever created for
\* that request.
C25_HashBeforeStore ==
    /\ [](\A r \in Reqs :
              req[r].kind = "register" =>
                  /\ req[r].pc = "hashing" \/ HashFailed(r) =>
                        /\ req[r].user = Null
                        /\ req[r].repoOutcome = Null
                        /\ NothingStored(r)
                  /\ req[r].pc \in {"exec", "replied"} =>
                        /\ req[r].passwordHash
                              = BcryptDigest(req[r].password, genSalt(r))
                        /\ req[r].user.passwordHash = req[r].passwordHash)
    /\ [][\A r \in Reqs :
              req[r].pc = "hashing" /\ req'[r].pc = "done" =>
                  /\ store' = store
                  /\ req'[r].outcome = Throw(HashError)]_vars

\* the hash of a registration failed, and a registration for the same
\* username submitted after it found the index key free and succeeded
C25_Witness ==
    \E r, q \in Reqs :
        /\ r < q
        /\ HashFailed(r)
        /\ req[q].kind = "register" /\ Succeeded(q)
        /\ req[q].username = req[r].username

\* C26: loginUser never modifies the store: every step of a login request,
\* from its arrival to its outcome (success, UnauthorizedError, a propagated
\* store or hasher error), leaves every index entry and every record as it
\* was.
C26_LoginReadsOnly ==
    [][\A r \in Reqs :
           req'[r].kind = "login" /\ req'[r] # req[r] => store' = store]_vars

\* over a store that holds a user, one login succeeded, one was refused and
\* one ended with a propagated error
C26_Witness ==
    /\ store # Null
    /\ \E r \in Logins : Succeeded(r)
    /\ \E r \in Logins :
           /\ Done(r)
           /\ req[r].outcome \in {Throw(StoreError), Throw(HashError)}

\* the calls that close the store connection
Teardowns == AdapterCalls({"quit", "disconnect"})

\* server.close called back without an error in some shutdown
CloseResolved ==
    \E i \in DOMAIN proc.shutdowns : proc.shutdowns[i].pc = "teardown"

\* server.close called back with an error in some shutdown
CloseFailed ==
    \E i \in DOMAIN proc.shutdowns : proc.shutdowns[i].pc = "failed"

\* C27: on a shutdown signal the HTTP server is closed before the store
\* connection is closed: a teardown call is awaited or made only once the
\* server stopped listening, its connections ended and its close called back
\* without an error; the process exits with code 0 only after that and
\* after the teardown call returned; and it exits with code 1 if closing the
\* HTTP server fails.
C27_ShutdownOrder ==
    /\ Teardowns # {} \/ proc.pending # "none" =>
          /\ CloseResolved
          /\ ~proc.listening
          /\ proc.connections = 0
    /\ proc.exited /\ proc.code = 0 =>
          /\ CloseResolved
          /\ ~CloseFailed
          /\ proc.pending = "none"
          /\ Teardowns # {}
          /\ conn.calls[Len(conn.calls)].op \in {"quit", "disconnect"}
          /\ conn.calls[Len(conn.calls)].returned.outcome = Return(Null)
          /\ conn.calls[Len(conn.calls)].result.ok => ~conn.open
    /\ CloseFailed => proc.exited /\ proc.code = 1

\* the server closed, the store connection was closed after it and the
\* process exited with code 0
C27_Witness ==
    /\ proc.exited
    /\ proc.code = 0
    /\ CloseResolved
    /\ Teardowns # {}
    /\ ~conn.open

\* C28: username uniqueness is enforced on the exact username string: two
\* usernames that differ only in letter case map to different index keys, so
\* a registration that is the only one for its spelling succeeds whatever
\* was registered under the other spelling, and a login succeeds only
\* against a registration of its own spelling: it is refused as unknown
\* while only the other spelling is registered, and otherwise it is
\* verified against the password registered under its spelling.
C28_CaseSensitive ==
    /\ \A a, b \in Reqs :
           /\ req[a].kind = "register" /\ req[b].kind = "register"
           /\ req[a].username # req[b].username
           => getUsernameIndexKey(req[a].username)
                  # getUsernameIndexKey(req[b].username)
    /\ \A r \in Reqs :
           /\ SoleRegister(r) /\ req[r].pc = "replied" => ~req[r].indexExisted
           /\ SoleRegister(r) /\ Done(r) =>
                  req[r].outcome = Return([username |-> req[r].username])
    /\ \A g \in Logins :
           Done(g) =>
               /\ Registers(req[g].username) = {} =>
                      /\ req[g].userId = Null
                      /\ req[g].outcome = Throw(UnauthorizedError)
               /\ Succeeded(g) =>
                      /\ req[g].outcome = Return([username |-> req[g].username])
                      /\ \E w \in Registers(req[g].username) :
                             /\ req[g].userId = uuidv4(w)
                             /\ req[w].password = req[g].password

\* both spellings are registered, with different passwords, and a login
\* under one spelling with the password of the other was refused after it
\* was verified against the record of its own spelling
C28_Witness ==
    \E a, b \in Reqs, g \in Logins :
        /\ req[a].kind = "register" /\ Succeeded(a) /\ req[a].username = "alice"
        /\ req[b].kind = "register" /\ Succeeded(b) /\ req[b].username = "Alice"
        /\ req[a].password # req[b].password
        /\ Done(g)
        /\ req[g].username = "Alice"
        /\ req[g].password = req[a].password
        /\ req[g].userId = uuidv4(b)
        /\ req[g].outcome = Throw(UnauthorizedError)

====
